---- MODULE Spec2Model ----
(***************************************************************************)
(* A model of the SendPost ESP example (src/main.go): the ESPExample       *)
(* struct, its constructor, its fifteen step methods and the workflow      *)
(* that main runs.  The SendPost API is the environment: every call of     *)
(* the generated client returns a result the model draws from small sets   *)
(* (a transport failure with no HTTP response, an HTTP error response, or  *)
(* a success with a payload).                                              *)
(***************************************************************************)
EXTENDS Integers, Sequences, FiniteSets, TLC

VARIABLES
    env,      \* process environment and edited configuration constants
    e,        \* the ESPExample struct (Nil before construction)
    pc,       \* position of main: which call is next
    now,      \* the local clock read by time.Now(), as a day number
    ticks,    \* how many times midnight passed during the run
    calls,    \* the API exchanges made by the most recent step, in order
    out,      \* what the most recent step printed as its outcome
    warned,   \* the API-key warning of RunCompleteWorkflow was printed
    ncalls,   \* how many step methods main has called
    listed,   \* how the run's listing of sub-accounts went ("none" before it)
    ran       \* the steps RunCompleteWorkflow has called so far, in order

vars == <<env, e, pc, now, ticks, calls, out, warned, ncalls, listed, ran>>

\* ----------------------------------------------------------------- bounds

\* Longest list a listing or send response carries.
MaxList == 2

\* How many midnights may pass while the program runs.
MaxTicks == 1

\* How many step methods a main edited to call single steps calls.
MaxCalls == 3

\* ----------------------------------------------------------------- values

\* Optional values (Go pointers): Nil is the nil pointer, Ptr(v) points to v.
Nil == <<>>
Ptr(v) == <<v>>
Deref(p) == p[1]

AccountKeyDefault == "YOUR_ACCOUNT_API_KEY_HERE"
SubAccountKeyDefault == "YOUR_SUB_ACCOUNT_API_KEY_HERE"
webhookURL == "https://your-webhook-endpoint.com/webhook"
testDomainName == "yourdomain.com"

\* Values of SENDPOST_ACCOUNT_API_KEY / SENDPOST_SUB_ACCOUNT_API_KEY ("" = unset).
EnvAccountKeys == {"", "acct-key"}
EnvSubAccountKeys == {"", "sub-key"}

\* The webhookURL constant as shipped, or edited to the empty string.
WebhookURLs == {webhookURL, ""}

\* HTTP statuses of an error response (401 unauthorized, 422 validation).
ErrorStatuses == {401, 422}

SubAccountIds == {1, 2}
ApiKeys == {"k1", "k2"}
ApiKeyOf(id) == IF id = 1 THEN "k1" ELSE "k2"
MessageIds == {"", "m1", "m2"}
PublicIPs == {"", "1.2.3.4", "5.6.7.8"}
PoolNames == {"", "Marketing Pool"}
WebhookIds == {7}
DomainIds == {42}
PoolIds == {9}

\* All sequences over S of length 0..n.
RECURSIVE SeqsUpTo(_, _)
SeqsUpTo(S, n) ==
    IF n = 0 THEN {<<>>}
    ELSE LET shorter == SeqsUpTo(S, n - 1)
         IN  shorter \cup {Append(s, x) : s \in {t \in shorter : Len(t) = n - 1}, x \in S}

\* ------------------------------------------------------------ API results

\* What Execute() returns: (value, resp, err).  kind "transport": err # nil and
\* resp = nil; kind "http": err # nil and resp carries the status; kind "ok":
\* err = nil and the value is body.
Results(bodies) ==
    {[kind |-> "transport", status |-> 0, value |-> Nil]}
    \cup {[kind |-> "http", status |-> s, value |-> Nil] : s \in ErrorStatuses}
    \cup {[kind |-> "ok", status |-> 200, value |-> Ptr(b)] : b \in bodies}

\* A sub-account as the API lists it: every field is optional.
SubAccountRecords ==
    {[Id |-> i, ApiKey |-> k] :
        i \in {Nil} \cup {Ptr(x) : x \in SubAccountIds},
        k \in {Nil} \cup {Ptr(x) : x \in ApiKeys}}

\* A record of the API: its key, when present, is the key of its id.
WellFormedSubAccount(r) ==
    r.ApiKey = Nil \/ (r.Id # Nil /\ Deref(r.ApiKey) = ApiKeyOf(Deref(r.Id)))

SubAccountBodies == {r \in SubAccountRecords : WellFormedSubAccount(r)}

IPRecords == {[PublicIP |-> a] : a \in PublicIPs}

EmailResponses == {[MessageId |-> m] : m \in {Nil} \cup {Ptr(x) : x \in MessageIds}}

IdBodies(ids) == {[Id |-> i] : i \in {Nil} \cup {Ptr(x) : x \in ids}}

IPPoolBodies ==
    {[Id |-> i, Name |-> n] :
        i \in {Nil} \cup {Ptr(x) : x \in PoolIds},
        n \in {Nil} \cup {Ptr(x) : x \in PoolNames}}

\* What each operation of the client may return.  A payload the step only
\* prints is one opaque value.
GetAllSubAccountsResults == Results(SeqsUpTo(SubAccountBodies, MaxList))
CreateSubAccountResults == Results(SubAccountBodies)
CreateWebhookResults == Results(IdBodies(WebhookIds))
SubaccountDomainPostResults == Results(IdBodies(DomainIds))
GetAllIpsResults == Results(SeqsUpTo(IPRecords, MaxList))
CreateIPPoolResults == Results(IPPoolBodies)
SendEmailResults == Results(SeqsUpTo(EmailResponses, MaxList))
PrintedOnlyResults == Results({"payload"})

\* ------------------------------------------------------------------ dates

IsLeap(y) == (y % 4 = 0 /\ y % 100 # 0) \/ y % 400 = 0

DaysInMonth(y, m) ==
    IF m = 2 THEN (IF IsLeap(y) THEN 29 ELSE 28)
    ELSE IF m \in {4, 6, 9, 11} THEN 30 ELSE 31

LeapsThrough(y) == (y \div 4) - (y \div 100) + (y \div 400)

\* Days from 1970-01-01 to y-01-01.
DaysBeforeYear(y) ==
    365 * (y - 1970) + LeapsThrough(y - 1) - LeapsThrough(1969)

\* Days of a non-leap year before each month (the daysBefore table of time).
daysBefore == <<0, 31, 59, 90, 120, 151, 181, 212, 243, 273, 304, 334, 365>>

\* Days of year y before its month m (m = 13: the length of the year).
DaysBeforeMonth(y, m) ==
    daysBefore[m] + (IF IsLeap(y) /\ m >= 3 THEN 1 ELSE 0)

\* time.Date(y, m, d, ...): the day number of a calendar date; d may lie
\* outside the month (AddDate passes day-7) and is normalised by counting.
Date(y, m, d) == DaysBeforeYear(y) + DaysBeforeMonth(y, m) + (d - 1)

\* The year a day number falls in.
YearOf(t) ==
    LET guess == 1970 + (t \div 365)
    IN  CHOOSE y \in (guess - 1)..guess :
            DaysBeforeYear(y) <= t /\ t < DaysBeforeYear(y + 1)

\* The month of year y its day number rest (0 = January 1st) falls in.
MonthOf(y, rest) ==
    CHOOSE m \in 1..12 : DaysBeforeMonth(y, m) <= rest /\ rest < DaysBeforeMonth(y, m + 1)

\* t.Date(): the calendar date <<year, month, day>> of a day number.
CivilDate(t) ==
    LET y == YearOf(t)
        rest == t - DaysBeforeYear(y)
        m == MonthOf(y, rest)
    IN  <<y, m, rest - DaysBeforeMonth(y, m) + 1>>

\* t.AddDate(years, months, days) with years = months = 0, as the code calls it.
AddDateOffByOne(t, days) == t + days + 1
AddDate(t, days) ==
    LET c == CivilDate(t) IN Date(c[1], c[2], c[3] + days)

\* t.Format("2006-01-02"): the year, month and day fields of the text.
Format(t) == CivilDate(t)

\* Days the statistics window reaches back.
StatsWindowDays == 7

\* The [from, to] window a statistics step computes from one clock reading.
\* (fromDate is bound through a singleton set so that it is computed once.)
StatsWindow(toDate) ==
    CHOOSE window \in
        {[from |-> Format(fromDate), to |-> Format(toDate)] :
            fromDate \in {AddDate(toDate, -StatsWindowDays)}} : TRUE

\* Calendar dates on which the program may be started.
StartDates == {<<2024, 3, 6>>, <<2025, 1, 5>>}

\* ------------------------------------------------------------------ state

\* The zero value of the ESPExample struct (createdDomainID, a string of
\* decimal digits, is kept as the sequence of its characters).
ZeroESPExample ==
    [accountAPIKey |-> "", subAccountAPIKey |-> "",
     createdSubAccountID |-> Nil, createdSubAccountKey |-> "",
     createdWebhookID |-> Nil, createdDomainID |-> <<>>,
     createdIPPoolID |-> Nil, createdIPPoolName |-> "",
     sentMessageID |-> ""]

\* The fields a run accumulates (the spec's RunState).
RunState(x) ==
    [sub_account_id |-> x.createdSubAccountID,
     sub_account_key |-> x.createdSubAccountKey,
     webhook_id |-> x.createdWebhookID,
     domain_id |-> x.createdDomainID,
     ip_pool_id |-> x.createdIPPoolID,
     ip_pool_name |-> x.createdIPPoolName,
     sent_message_id |-> x.sentMessageID]

\* What a step printed: its outcome line ("" when it printed none), the
\* status code of a failure, the count of a "Retrieved <count>" line and the
\* "Message ID:" line of a send.
NoReport == [step |-> "", outcome |-> "", status |-> 0, count |-> 0, messageId |-> Nil]

\* The environments the program is started in: at most one setting is missing.
Defects(v) ==
    (IF v.account = "" THEN 1 ELSE 0) + (IF v.sub = "" THEN 1 ELSE 0)
    + (IF v.webhookURL = "" THEN 1 ELSE 0)

Environments ==
    {v \in [account : EnvAccountKeys, sub : EnvSubAccountKeys, webhookURL : WebhookURLs] :
        Defects(v) <= 1}

Init ==
    /\ env \in Environments
    /\ e = ZeroESPExample
    /\ pc = "NewESPExample"
    /\ now \in {Date(d[1], d[2], d[3]) : d \in StartDates}
    /\ ticks = 0
    /\ calls = <<>>
    /\ out = NoReport
    /\ warned = FALSE
    /\ ncalls = 0
    /\ listed = "none"
    /\ ran = <<>>

\* Midnight passes between two steps of the running program.
Tick ==
    /\ pc \notin {"NewESPExample", "done", "panic"}
    /\ ticks < MaxTicks
    /\ now' = now + 1
    /\ ticks' = ticks + 1
    /\ UNCHANGED <<env, e, pc, calls, out, warned, ncalls, listed, ran>>

\* NewESPExample: keys from the environment or the placeholders; no validation.
NewESPExampleValidating(ret) ==
    /\ pc = "NewESPExample"
    /\ e' = [ZeroESPExample EXCEPT !.accountAPIKey = env.account,
                                   !.subAccountAPIKey = env.sub]
    /\ pc' = IF env.account = "" \/ env.sub = "" \/ env.webhookURL = ""
             THEN "exit" ELSE ret
    /\ UNCHANGED <<env, now, ticks, calls, out, warned, ncalls, listed, ran>>
NewESPExample(ret) ==
    /\ pc = "NewESPExample"
    /\ e' = [ZeroESPExample EXCEPT
                !.accountAPIKey = IF env.account = "" THEN AccountKeyDefault ELSE env.account,
                !.subAccountAPIKey = IF env.sub = "" THEN SubAccountKeyDefault ELSE env.sub]
    /\ pc' = ret
    /\ UNCHANGED <<env, now, ticks, calls, out, warned, ncalls, listed, ran>>

createAccountAuthContext == [scheme |-> "accountAuth", key |-> e.accountAPIKey]

createSubAccountAuthContextAccountKey ==
    [scheme |-> "subAccountAuth", key |-> e.accountAPIKey]
createSubAccountAuthContext == [scheme |-> "subAccountAuth", key |-> e.subAccountAPIKey]

\* One request of the generated client together with the result it returned.
\* len is the number of entries a listing returned (0 otherwise) and first
\* the entry it returned first (Nil when there is none).
ListExchange(op, ctx, args, r) ==
    [op |-> op, auth |-> ctx.scheme, key |-> ctx.key, args |-> args,
     kind |-> r.kind, status |-> r.status,
     len |-> IF r.kind = "ok" THEN Len(Deref(r.value)) ELSE 0,
     first |-> IF r.kind = "ok" /\ Len(Deref(r.value)) > 0
               THEN Ptr(Deref(r.value)[1]) ELSE Nil]

Exchange(op, ctx, args, r) ==
    [op |-> op, auth |-> ctx.scheme, key |-> ctx.key, args |-> args,
     kind |-> r.kind, status |-> r.status, len |-> 0, first |-> Nil]

\* A step method returns (or the process dies): what it called, what it
\* printed, the struct it leaves behind and where main continues.
Return(step, cs, outcome, status, e2, next) ==
    /\ calls' = cs
    /\ out' = [step |-> step, outcome |-> outcome, status |-> status, count |-> 0,
               messageId |-> Nil]
    /\ e' = e2
    /\ pc' = next
    /\ ncalls' = ncalls + 1
    /\ UNCHANGED <<env, now, ticks, warned>>

\* A listing step returns after printing "Retrieved <count> ...".
ReturnCount(step, cs, count, e2, next) ==
    /\ calls' = cs
    /\ out' = [step |-> step, outcome |-> "Success", status |-> 200, count |-> count,
               messageId |-> Nil]
    /\ e' = e2
    /\ pc' = next
    /\ ncalls' = ncalls + 1
    /\ UNCHANGED <<env, now, ticks, warned>>

\* A send step returns after printing the first response.
ReturnSent(step, cs, response, e2, next) ==
    /\ calls' = cs
    /\ out' = [step |-> step, outcome |-> "Success", status |-> 200, count |-> 0,
               messageId |-> response.MessageId]
    /\ e' = e2
    /\ pc' = next
    /\ ncalls' = ncalls + 1
    /\ UNCHANGED <<env, now, ticks, warned>>

\* The `if err != nil` branch every step shares: print the failure line, then
\* resp.StatusCode (a nil dereference when there is no response), then return.
ErrBranchFatal(step, cs, r, ret) ==
    Return(step, cs, "Failure", r.status, e, "panic")
ErrBranchReset(step, cs, r, ret) ==
    Return(step, cs, "Failure", r.status,
           [e EXCEPT !.createdIPPoolID = Nil, !.createdIPPoolName = ""],
           IF r.kind = "transport" THEN "panic" ELSE ret)
ErrBranchRetry(step, cs, r, ret) ==
    Return(step, Append(cs, cs[Len(cs)]), "Failure", r.status, e,
           IF r.kind = "transport" THEN "panic" ELSE ret)
ErrBranch(step, cs, r, ret) ==
    Return(step, cs, "Failure", r.status, e,
           IF r.kind = "transport" THEN "panic" ELSE ret)

\* The range loop of ListSubAccounts from entry i on: prints *subAccount.Id
\* (a nil dereference when the id is absent), then adopts the first entry
\* when no sub-account is selected yet.
RECURSIVE RangeSubAccountsLast(_, _, _)
RangeSubAccountsLast(list, i, st) ==
    IF i > Len(list) THEN [e |-> st, panic |-> FALSE]
    ELSE LET subAccount == list[i] IN
         IF subAccount.Id = Nil THEN [e |-> st, panic |-> TRUE]
         ELSE RangeSubAccountsLast(list, i + 1,
                [st EXCEPT
                    !.createdSubAccountID = subAccount.Id,
                    !.createdSubAccountKey =
                        IF subAccount.ApiKey # Nil THEN Deref(subAccount.ApiKey) ELSE @])
RECURSIVE RangeSubAccounts(_, _, _)
RangeSubAccounts(list, i, st) ==
    IF i > Len(list) THEN [e |-> st, panic |-> FALSE]
    ELSE LET subAccount == list[i] IN
         IF subAccount.Id = Nil THEN [e |-> st, panic |-> TRUE]
         ELSE RangeSubAccounts(list, i + 1,
                IF st.createdSubAccountID = Nil /\ subAccount.Id # Nil
                THEN [st EXCEPT
                        !.createdSubAccountID = subAccount.Id,
                        !.createdSubAccountKey =
                            IF subAccount.ApiKey # Nil THEN Deref(subAccount.ApiKey) ELSE @]
                ELSE st)

ListSubAccounts(ret) ==
    \E r \in GetAllSubAccountsResults :
        LET cs == <<ListExchange("GetAllSubAccounts", createAccountAuthContext, [none |-> TRUE], r)>>
        IN  IF r.kind # "ok"
            THEN /\ ErrBranch("ListSubAccounts", cs, r, ret)
                 /\ listed' = "error"
            ELSE LET subAccounts == Deref(r.value)
                     loop == RangeSubAccounts(subAccounts, 1, e)
                 IN  /\ ReturnCount("ListSubAccounts", cs, Len(subAccounts), loop.e,
                                    IF loop.panic THEN "panic" ELSE ret)
                     /\ listed' = IF Len(subAccounts) = 0 THEN "empty" ELSE "nonempty"

\* The name built from time.Now().Unix().
TimedName(prefix) == [prefix |-> prefix, t |-> now]

CreateSubAccount(ret) ==
    \E r \in CreateSubAccountResults :
        LET cs == <<Exchange("CreateSubAccount", createAccountAuthContext,
                             [name |-> TimedName("ESP Client")], r)>>
        IN  /\ IF r.kind # "ok"
               THEN ErrBranch("CreateSubAccount", cs, r, ret)
               ELSE LET subAccount == Deref(r.value)
                        e1 == IF subAccount.Id # Nil
                              THEN [e EXCEPT !.createdSubAccountID = subAccount.Id] ELSE e
                        e2 == IF subAccount.ApiKey # Nil
                              THEN [e1 EXCEPT !.createdSubAccountKey = Deref(subAccount.ApiKey)]
                              ELSE e1
                    IN  Return("CreateSubAccount", cs, "Success", r.status, e2, ret)
            /\ UNCHANGED listed

CreateWebhook(ret) ==
    \E r \in CreateWebhookResults :
        LET cs == <<Exchange("CreateWebhook", createAccountAuthContext,
                             [url |-> env.webhookURL, enabled |-> TRUE], r)>>
        IN  /\ IF r.kind # "ok"
               THEN ErrBranch("CreateWebhook", cs, r, ret)
               ELSE LET webhook == Deref(r.value)
                    IN  Return("CreateWebhook", cs, "Success", r.status,
                               IF webhook.Id # Nil
                               THEN [e EXCEPT !.createdWebhookID = Ptr(Deref(webhook.Id))]
                               ELSE e,
                               ret)
            /\ UNCHANGED listed

\* A step that makes one call and only prints what came back.
ReadOnlyStep(step, op, ctx, ret) ==
    \E r \in PrintedOnlyResults :
        LET cs == <<Exchange(op, ctx, [none |-> TRUE], r)>>
        IN  /\ IF r.kind # "ok"
               THEN ErrBranch(step, cs, r, ret)
               ELSE Return(step, cs, "Success", r.status, e, ret)
            /\ UNCHANGED listed

ListWebhooks(ret) ==
    ReadOnlyStep("ListWebhooks", "GetAllWebhooks", createAccountAuthContext, ret)

\* strconv.FormatInt(i, 10): the decimal digits of i, most significant first.
RECURSIVE Digits(_)
Digits(n) == IF n < 10 THEN <<n>> ELSE Append(Digits(n \div 10), n % 10)

FormatInt(i) == IF i < 0 THEN <<"-">> \o Digits(-i) ELSE Digits(i)

AddDomain(ret) ==
    \E r \in SubaccountDomainPostResults :
        LET cs == <<Exchange("SubaccountDomainPost", createSubAccountAuthContext,
                             [name |-> testDomainName], r)>>
        IN  /\ IF r.kind # "ok"
               THEN ErrBranch("AddDomain", cs, r, ret)
               ELSE LET domain == Deref(r.value)
                    IN  Return("AddDomain", cs, "Success", r.status,
                               IF domain.Id # Nil
                               THEN [e EXCEPT !.createdDomainID = FormatInt(Deref(domain.Id))]
                               ELSE e,
                               ret)
            /\ UNCHANGED listed

ListDomains(ret) ==
    ReadOnlyStep("ListDomains", "GetAllDomains", createSubAccountAuthContext, ret)

\* Use IP pool if available: the ippool field of an email message.
IppoolOfNever(x) == Nil
IppoolOf(x) == IF x.createdIPPoolName # "" THEN Ptr(x.createdIPPoolName) ELSE Nil

\* What SendTransactionalEmail stores from the first response.
TransactionalStore(x, response) ==
    IF response.MessageId # Nil
    THEN [x EXCEPT !.sentMessageID = Deref(response.MessageId)] ELSE x

\* What SendMarketingEmail stores from the first response.
MarketingStoreAlways(x, response) ==
    IF response.MessageId # Nil
    THEN [x EXCEPT !.sentMessageID = Deref(response.MessageId)] ELSE x
MarketingStore(x, response) ==
    IF x.sentMessageID = "" /\ response.MessageId # Nil
    THEN [x EXCEPT !.sentMessageID = Deref(response.MessageId)] ELSE x

SendTransactionalEmail(ret) ==
    \E r \in SendEmailResults :
        LET cs == <<ListExchange("SendEmail", createSubAccountAuthContext,
                             [type |-> "transactional", ippool |-> IppoolOf(e)], r)>>
        IN  /\ IF r.kind # "ok"
               THEN ErrBranch("SendTransactionalEmail", cs, r, ret)
               ELSE LET responses == Deref(r.value)
                    IN  IF Len(responses) > 0
                        THEN ReturnSent("SendTransactionalEmail", cs, responses[1],
                                        TransactionalStore(e, responses[1]), ret)
                        ELSE Return("SendTransactionalEmail", cs, "", r.status, e, ret)
            /\ UNCHANGED listed

SendMarketingEmail(ret) ==
    \E r \in SendEmailResults :
        LET cs == <<ListExchange("SendEmail", createSubAccountAuthContext,
                             [type |-> "marketing", ippool |-> IppoolOf(e)], r)>>
        IN  /\ IF r.kind # "ok"
               THEN ErrBranch("SendMarketingEmail", cs, r, ret)
               ELSE LET responses == Deref(r.value)
                    IN  IF Len(responses) > 0
                        THEN ReturnSent("SendMarketingEmail", cs, responses[1],
                                        MarketingStore(e, responses[1]), ret)
                        ELSE Return("SendMarketingEmail", cs, "", r.status, e, ret)
            /\ UNCHANGED listed

\* The guard of GetMessageDetails: nothing to look up without a message id.
NoMessageID(x) == x.sentMessageID = ""

GetMessageDetails(ret) ==
    /\ IF NoMessageID(e)
       THEN Return("GetMessageDetails", <<>>, "Skipped", 0, e, ret)
       ELSE \E r \in PrintedOnlyResults :
                LET cs == <<Exchange("GetMessageById", createAccountAuthContext,
                                     [messageId |-> e.sentMessageID], r)>>
                IN  IF r.kind # "ok"
                    THEN ErrBranch("GetMessageDetails", cs, r, ret)
                    ELSE Return("GetMessageDetails", cs, "Success", r.status, e, ret)
    /\ UNCHANGED listed

\* The guard of both sub-account statistics steps.
NoSubAccountIDAlways(x) == TRUE
NoSubAccountID(x) == x.createdSubAccountID = Nil

GetSubAccountStats(ret) ==
    /\ IF NoSubAccountID(e)
       THEN Return("GetSubAccountStats", <<>>, "Skipped", 0, e, ret)
       ELSE \E r \in PrintedOnlyResults :
                LET window == StatsWindow(now)
                    cs == <<Exchange("AccountSubaccountStatSubaccountIdGet",
                                     createAccountAuthContext,
                                     [id |-> Deref(e.createdSubAccountID),
                                      from |-> window.from, to |-> window.to], r)>>
                IN  IF r.kind # "ok"
                    THEN ErrBranch("GetSubAccountStats", cs, r, ret)
                    ELSE Return("GetSubAccountStats", cs, "Success", r.status, e, ret)
    /\ UNCHANGED listed

GetAggregateStats(ret) ==
    /\ IF NoSubAccountID(e)
       THEN Return("GetAggregateStats", <<>>, "Skipped", 0, e, ret)
       ELSE \E r \in PrintedOnlyResults :
                LET window == StatsWindow(now)
                    cs == <<Exchange("AccountSubaccountStatSubaccountIdAggregateGet",
                                     createAccountAuthContext,
                                     [id |-> Deref(e.createdSubAccountID),
                                      from |-> window.from, to |-> window.to], r)>>
                IN  IF r.kind # "ok"
                    THEN ErrBranch("GetAggregateStats", cs, r, ret)
                    ELSE Return("GetAggregateStats", cs, "Success", r.status, e, ret)
    /\ UNCHANGED listed

ListIPs(ret) ==
    \E r \in GetAllIpsResults :
        LET cs == <<ListExchange("GetAllIps", createAccountAuthContext, [none |-> TRUE], r)>>
        IN  /\ IF r.kind # "ok"
               THEN ErrBranch("ListIPs", cs, r, ret)
               ELSE ReturnCount("ListIPs", cs, Len(Deref(r.value)), e, ret)
            /\ UNCHANGED listed

\* The IPs put into the pool request: the first available IP, if it has an address.
PoolIPsUnchecked(ips) ==
    IF Len(ips) > 0 THEN <<ips[1].PublicIP>> ELSE <<>>
PoolIPs(ips) ==
    IF Len(ips) > 0 /\ ips[1].PublicIP # "" THEN <<ips[1].PublicIP>> ELSE <<>>

\* The pool request CreateIPPool builds.
PoolRequest(ips) ==
    [name |-> TimedName("Marketing Pool"),
     routingStrategy |-> 0,
     ips |-> PoolIPs(ips),
     warmupInterval |-> 24,
     overflowStrategy |-> 0]

\* What CreateIPPool stores from the created pool.
StorePool(x, ipPool) ==
    LET x1 == IF ipPool.Id # Nil
              THEN [x EXCEPT !.createdIPPoolID = Ptr(Deref(ipPool.Id))] ELSE x
    IN  IF ipPool.Name # Nil
        THEN [x1 EXCEPT !.createdIPPoolName = Deref(ipPool.Name)] ELSE x1

\* The second half of CreateIPPool, after its own IP listing returned ips.
CreatePoolFrom(first, ips, ret) ==
    \E r \in CreateIPPoolResults :
        LET cs == <<first, Exchange("CreateIPPool", createAccountAuthContext,
                                    PoolRequest(ips), r)>>
        IN  IF r.kind # "ok"
            THEN ErrBranch("CreateIPPool", cs, r, ret)
            ELSE Return("CreateIPPool", cs, "Success", r.status,
                        StorePool(e, Deref(r.value)), ret)

CreateIPPoolNoSkip(ret) ==
    /\ \E r \in GetAllIpsResults :
        LET first == ListExchange("GetAllIps", createAccountAuthContext, [none |-> TRUE], r)
        IN  IF r.kind # "ok"
            THEN ErrBranch("CreateIPPool", <<first>>, r, ret)
            ELSE CreatePoolFrom(first, Deref(r.value), ret)
    /\ UNCHANGED listed
CreateIPPool(ret) ==
    /\ \E r \in GetAllIpsResults :
        LET first == ListExchange("GetAllIps", createAccountAuthContext, [none |-> TRUE], r)
        IN  IF r.kind # "ok"
            THEN ErrBranch("CreateIPPool", <<first>>, r, ret)
            ELSE IF Len(Deref(r.value)) = 0
            THEN Return("CreateIPPool", <<first>>, "Skipped", r.status, e, ret)
            ELSE CreatePoolFrom(first, Deref(r.value), ret)
    /\ UNCHANGED listed

ListIPPools(ret) ==
    ReadOnlyStep("ListIPPools", "GetAllIPPools", createAccountAuthContext, ret)

GetAccountStats(ret) ==
    \E r \in PrintedOnlyResults :
        LET window == StatsWindow(now)
            cs == <<Exchange("GetAllAccountStats", createAccountAuthContext,
                             [from |-> window.from, to |-> window.to], r)>>
        IN  /\ IF r.kind # "ok"
               THEN ErrBranch("GetAccountStats", cs, r, ret)
               ELSE Return("GetAccountStats", cs, "Success", r.status, e, ret)
            /\ UNCHANGED listed

\* ------------------------------------------------------------ the workflow

\* The calls of RunCompleteWorkflow, in the order it makes them (and, first,
\* an order in which the sends would come before the IP steps).
WorkflowSendsFirst ==
    <<"ListSubAccounts", "CreateWebhook", "ListWebhooks", "AddDomain", "ListDomains",
      "SendTransactionalEmail", "SendMarketingEmail", "ListIPs", "CreateIPPool",
      "ListIPPools", "GetSubAccountStats", "GetAggregateStats",
      "GetAccountStats", "GetMessageDetails">>
Workflow ==
    <<"ListSubAccounts", "CreateWebhook", "ListWebhooks", "AddDomain", "ListDomains",
      "ListIPs", "CreateIPPool", "ListIPPools", "SendTransactionalEmail",
      "SendMarketingEmail", "GetSubAccountStats", "GetAggregateStats",
      "GetAccountStats", "GetMessageDetails">>

Steps == {Workflow[i] : i \in 1..Len(Workflow)}

IndexOf(step) == CHOOSE i \in 1..Len(Workflow) : Workflow[i] = step

\* Where main continues after a step returns: the next call, or the
\* "Workflow Complete" banner and a normal exit.
After(step) ==
    IF IndexOf(step) = Len(Workflow) THEN "done" ELSE Workflow[IndexOf(step) + 1]

\* The head of RunCompleteWorkflow: the banner and the API-key check, which
\* warns and goes on.
CheckAPIKeys ==
    /\ pc = "RunCompleteWorkflow"
    /\ warned' = (e.accountAPIKey = AccountKeyDefault
                  \/ e.subAccountAPIKey = SubAccountKeyDefault)
    /\ pc' = Workflow[1]
    /\ UNCHANGED <<env, e, now, ticks, calls, out, ncalls, listed, ran>>

RunCompleteWorkflow ==
    \/ CheckAPIKeys
    \/ pc = "ListSubAccounts" /\ ListSubAccounts(After("ListSubAccounts")) /\ ran' = Append(ran, pc)
    \/ pc = "CreateWebhook" /\ CreateWebhook(After("CreateWebhook")) /\ ran' = Append(ran, pc)
    \/ pc = "ListWebhooks" /\ ListWebhooks(After("ListWebhooks")) /\ ran' = Append(ran, pc)
    \/ pc = "AddDomain" /\ AddDomain(After("AddDomain")) /\ ran' = Append(ran, pc)
    \/ pc = "ListDomains" /\ ListDomains(After("ListDomains")) /\ ran' = Append(ran, pc)
    \/ pc = "ListIPs" /\ ListIPs(After("ListIPs")) /\ ran' = Append(ran, pc)
    \/ pc = "CreateIPPool" /\ CreateIPPool(After("CreateIPPool")) /\ ran' = Append(ran, pc)
    \/ pc = "ListIPPools" /\ ListIPPools(After("ListIPPools")) /\ ran' = Append(ran, pc)
    \/ pc = "SendTransactionalEmail" /\ SendTransactionalEmail(After("SendTransactionalEmail")) /\ ran' = Append(ran, pc)
    \/ pc = "SendMarketingEmail" /\ SendMarketingEmail(After("SendMarketingEmail")) /\ ran' = Append(ran, pc)
    \/ pc = "GetSubAccountStats" /\ GetSubAccountStats(After("GetSubAccountStats")) /\ ran' = Append(ran, pc)
    \/ pc = "GetAggregateStats" /\ GetAggregateStats(After("GetAggregateStats")) /\ ran' = Append(ran, pc)
    \/ pc = "GetAccountStats" /\ GetAccountStats(After("GetAccountStats")) /\ ran' = Append(ran, pc)
    \/ pc = "GetMessageDetails" /\ GetMessageDetails(After("GetMessageDetails")) /\ ran' = Append(ran, pc)

\* main: construct the example, then run the complete workflow.
main ==
    \/ NewESPExample("RunCompleteWorkflow")
    \/ RunCompleteWorkflow

Next == main \/ Tick

Spec == Init /\ [][Next]_vars

\* ------------------------------------------------- steps called one by one

\* A main edited to call individual steps (README, "Testing Individual
\* Steps"): after construction any step method, any number of times, in any
\* order.
CallAnyStep ==
    /\ pc = "main"
    /\ ncalls < MaxCalls
    /\ UNCHANGED ran
    /\ \/ ListSubAccounts("main")
       \/ CreateSubAccount("main")
       \/ CreateWebhook("main")
       \/ ListWebhooks("main")
       \/ AddDomain("main")
       \/ ListDomains("main")
       \/ ListIPs("main")
       \/ CreateIPPool("main")
       \/ ListIPPools("main")
       \/ SendTransactionalEmail("main")
       \/ SendMarketingEmail("main")
       \/ GetSubAccountStats("main")
       \/ GetAggregateStats("main")
       \/ GetAccountStats("main")
       \/ GetMessageDetails("main")

\* Started with every setting present; the clock stays within one day.
InitCalls ==
    /\ Init
    /\ Defects(env) = 0
    /\ \A d \in StartDates : now <= Date(d[1], d[2], d[3])

NextCalls == NewESPExample("main") \/ CallAnyStep

SpecCalls == InitCalls /\ [][NextCalls]_vars

\* ------------------------------------------------------------- properties

\* The last API exchange of the most recent step.
LastCall == calls[Len(calls)]

\* A step of the workflow is taken by this transition.
StepTaken == pc \in Steps /\ pc' # pc

\* The call the step just taken made last came back as an HTTP error response.
HttpErrorReturned == calls' # <<>> /\ calls'[Len(calls')].kind = "http"

\* The call the step just taken made last failed with no HTTP response.
TransportFailureReturned == calls' # <<>> /\ calls'[Len(calls')].kind = "transport"

\* The process died on a nil dereference for one of the two reasons the code
\* has: a failed call without a response, or a listed sub-account without id.
PanicCause ==
    /\ calls # <<>>
    /\ \/ LastCall.kind = "transport"
       \/ out.step = "ListSubAccounts" /\ LastCall.kind = "ok"

\* C1: a step whose API call returns an error together with an HTTP response
\* does not halt the workflow: main goes on to the next call in order, every
\* step reports the status of its own last call under its own name, an HTTP
\* error never kills the process, and every step hands over to the call after
\* it in the workflow's order (after the last one, to "Workflow Complete")
\* unless the process dies of a failure without response or of an absent id.
C1_HttpErrorDoesNotHalt ==
    /\ [][StepTaken /\ HttpErrorReturned
            => pc' = After(pc) /\ out'.outcome = "Failure"]_vars
    /\ [][StepTaken
            => out'.step = pc
               /\ (calls' # <<>> => out'.status = calls'[Len(calls')].status)]_vars
    /\ [][StepTaken => pc' \in {After(pc), "panic"}]_vars
    /\ [](pc = "panic" => PanicCause)

\* C1 witness: the first step failed with an HTTP error and the run went
\* through every later step to "Workflow Complete".
C1_Witness ==
    /\ pc = "done"
    /\ listed = "error"
    /\ out.step = "GetMessageDetails"
    /\ ncalls = Len(Workflow)

\* C2: a transport failure (an error and no HTTP response) is not fatal: the
\* run continues with the next step.
C2_TransportFailureNotFatal ==
    [][StepTaken /\ TransportFailureReturned => pc' = After(pc)]_vars

\* C3: a step that ends in a Failure outcome (one of its API calls returned
\* an error) leaves every RunState field as it was before the step; and a
\* step whose last call returned an error does end in Failure.
C3_FailureLeavesRunState ==
    [][(out'.outcome = "Failure" \/ (calls' # <<>> /\ calls'[Len(calls')].kind # "ok"))
          => out'.outcome = "Failure" /\ RunState(e') = RunState(e)]_vars

\* C3 witness: CreateIPPool failed at its second call (the create-pool
\* request) while the run state already held a pool and a sub-account.
C3_Witness ==
    /\ out.step = "CreateIPPool"
    /\ out.outcome = "Failure"
    /\ Len(calls) = 2
    /\ e.createdIPPoolName # ""
    /\ e.createdSubAccountID # Nil

\* C4: first successful send wins: the marketing send never changes a
\* sent_message_id that is set, whatever id it gets back; it stores the id it
\* got only when sent_message_id is still unset.
C4_FirstSendWins ==
    [][pc = "SendMarketingEmail" /\ pc' # pc
          => /\ e.sentMessageID # "" => e'.sentMessageID = e.sentMessageID
             /\ e'.sentMessageID # e.sentMessageID
                  => e.sentMessageID = "" /\ out'.messageId = Ptr(e'.sentMessageID)]_vars

\* C4 witness: the marketing send got message id m2 back and the stored id
\* is still m1, the one of the transactional send.
C4_Witness ==
    /\ out.step = "SendMarketingEmail"
    /\ out.messageId = Ptr("m2")
    /\ e.sentMessageID = "m1"

\* The most recent step issued a create-pool request.
PoolRequested(cs) == \E i \in 1..Len(cs) : cs[i].op = "CreateIPPool"

\* C5 as claimed: when the List-IPs step returned an empty list, the
\* Create-IP-pool step is reported as skipped, not failed, and issues no
\* create-pool request (a step at which the process dies is left aside).
C5_SkippedWhenListIPsEmpty ==
    [][(pc = "CreateIPPool" /\ pc' \notin {pc, "panic"}
        /\ out.step = "ListIPs" /\ out.outcome = "Success" /\ out.count = 0)
          => out'.outcome = "Skipped" /\ ~PoolRequested(calls')]_vars

\* C5 amended: when the IP listing that the Create-IP-pool step itself makes
\* returns an empty list, the step is reported as skipped, not failed, and
\* issues no create-pool request; it is skipped in no other case.
C5_SkippedWhenOwnListingEmpty ==
    [][pc = "CreateIPPool" /\ pc' # pc
          => /\ calls'[1].op = "GetAllIps"
             /\ (calls'[1].kind = "ok" /\ calls'[1].len = 0)
                  => out'.outcome = "Skipped" /\ ~PoolRequested(calls')
             /\ out'.outcome = "Skipped"
                  => calls'[1].kind = "ok" /\ calls'[1].len = 0]_vars

\* C5 witness: the step's own listing came back empty, the step was reported
\* as skipped and made no second call.
C5_Witness ==
    /\ pc = "ListIPPools"
    /\ out.step = "CreateIPPool"
    /\ out.outcome = "Skipped"
    /\ Len(calls) = 1
    /\ calls[1].op = "GetAllIps"
    /\ calls[1].len = 0

\* What the two sub-account statistics steps do with sub_account_id.
StatsPrerequisite ==
    (pc \in {"GetSubAccountStats", "GetAggregateStats"} /\ pc' # pc)
        => IF e.createdSubAccountID = Nil
           THEN (calls' = <<>> /\ out'.outcome = "Skipped")
           ELSE (/\ Len(calls') = 1
                 /\ calls'[1].op =
                      (IF pc = "GetSubAccountStats"
                       THEN "AccountSubaccountStatSubaccountIdGet"
                       ELSE "AccountSubaccountStatSubaccountIdAggregateGet")
                 /\ calls'[1].args.id = Deref(e.createdSubAccountID))

\* What the message-details step does with sent_message_id.
MessagePrerequisite ==
    (pc = "GetMessageDetails" /\ pc' # pc)
        => IF e.sentMessageID = ""
           THEN (calls' = <<>> /\ out'.outcome = "Skipped")
           ELSE (/\ Len(calls') = 1
                 /\ calls'[1].op = "GetMessageById"
                 /\ calls'[1].args.messageId = e.sentMessageID)

\* C6: the sub-account statistics step and the aggregate statistics step
\* issue no request when sub_account_id is unset and exactly their request,
\* for that id, when it is set; the message-details step issues no request
\* when sent_message_id is unset and its request, for that id, when it is set.
C6_PrerequisiteDecidesRequest ==
    /\ [][StatsPrerequisite]_vars
    /\ [][MessagePrerequisite]_vars

\* C6 witness: a run in which the statistics steps found no sub-account id
\* and the message-details step, with a message id, issued its request.
C6_Witness ==
    /\ pc = "done"
    /\ e.createdSubAccountID = Nil
    /\ out.step = "GetMessageDetails"
    /\ calls # <<>>

\* C7: in a fresh run whose sub-account listing succeeds with zero entries a
\* sub-account is created, so the sub-account statistics step is attempted
\* against the API rather than skipped.
C7_StatsAttemptedAfterEmptyListing ==
    (pc = "GetAggregateStats" /\ listed = "empty")
        => out.step = "GetSubAccountStats" /\ out.outcome # "Skipped" /\ calls # <<>>

\* The configuration the program is started with is structurally invalid.
InvalidConfiguration ==
    env.webhookURL = "" \/ env.account = "" \/ env.sub = ""

\* C8 as claimed: with an invalid configuration construction fails before any
\* network call, so no step issues a request.
C8_InvalidConfigurationNoRequest ==
    InvalidConfiguration => calls = <<>>

\* C8 amended: construction validates nothing and never fails: a missing key
\* is replaced by its placeholder, the workflow warns exactly when a key is a
\* placeholder and then runs its steps all the same, and requests carry the
\* configured values as they are (an empty webhook URL included).
C8_NoValidationWarnAndProceed ==
    /\ pc # "NewESPExample"
         => /\ pc \in {"RunCompleteWorkflow", "done", "panic"} \cup Steps
            /\ e.accountAPIKey = (IF env.account = "" THEN AccountKeyDefault ELSE env.account)
            /\ e.subAccountAPIKey = (IF env.sub = "" THEN SubAccountKeyDefault ELSE env.sub)
    /\ pc \notin {"NewESPExample", "RunCompleteWorkflow"}
         => warned = (env.account = "" \/ env.sub = "")
    /\ pc = After("ListSubAccounts")
         => calls # <<>> /\ calls[1].key = e.accountAPIKey
    /\ out.step = "CreateWebhook" => calls[1].args.url = env.webhookURL

\* C8 witness: started with an empty webhook URL, the run sent the
\* create-webhook request with that empty URL.
C8_Witness ==
    /\ env.webhookURL = ""
    /\ out.step = "CreateWebhook"
    /\ calls[1].op = "CreateWebhook"
    /\ calls[1].args.url = ""

\* C9: in one run the sub-account statistics step and the aggregate
\* statistics step request the identical [from, to] window, also when the
\* calendar date changes between the two steps.
C9_SameWindowInBothStatsSteps ==
    [][(pc = "GetAggregateStats" /\ pc' # pc /\ calls # <<>> /\ calls' # <<>>)
          => /\ calls'[1].args.from = calls[1].args.from
             /\ calls'[1].args.to = calls[1].args.to]_vars

\* A calendar date <<year, month, day>> that exists.
ValidDate(d) ==
    /\ d[2] \in 1..12
    /\ d[3] \in 1..DaysInMonth(d[1], d[2])

StatsSteps == {"GetSubAccountStats", "GetAggregateStats", "GetAccountStats"}

\* C10: every statistics request carries existing calendar dates, to_date
\* the date of the clock when the step is invoked and from_date the date
\* exactly 7 days before to_date.
C10_StatsWindow ==
    [][(pc \in StatsSteps /\ pc' # pc /\ calls' # <<>>)
          => LET from == calls'[1].args.from
                 to == calls'[1].args.to
             IN  /\ ValidDate(from) /\ ValidDate(to)
                 /\ Date(to[1], to[2], to[3]) = now
                 /\ Date(from[1], from[2], from[3]) = Date(to[1], to[2], to[3]) - 7]_vars

\* C10 witness: an account statistics request whose window starts on the
\* leap day, in the month before its end.
C10_Witness ==
    /\ out.step = "GetAccountStats"
    /\ calls # <<>>
    /\ calls[1].args.from = <<2024, 2, 29>>
    /\ calls[1].args.to = <<2024, 3, 7>>

\* The create-pool request of the step just taken and the IP its own listing
\* returned first.
CreatePoolTaken ==
    pc = "CreateIPPool" /\ pc' \notin {pc, "panic"} /\ PoolRequested(calls')

FixedPoolSettings(req) ==
    req.routingStrategy = 0 /\ req.warmupInterval = 24 /\ req.overflowStrategy = 0

\* C11 as claimed: when the IP listing returns exactly one IP, the create-pool
\* request contains exactly that one IP, with routing strategy round-robin
\* (0), warmup interval 24 and overflow strategy none (0); the three settings
\* are the same in every create-pool request.
C11_PoolRequestOfOneListedIP ==
    [][CreatePoolTaken
          => /\ FixedPoolSettings(calls'[2].args)
             /\ calls'[1].len = 1
                  => calls'[2].args.ips = <<Deref(calls'[1].first).PublicIP>>]_vars

\* C11 amended: every create-pool request carries routing strategy 0, warmup
\* interval 24 and overflow strategy 0, and its IP list is taken from the
\* first IP the step's own listing returned: exactly that IP's address when
\* the address is not empty, and no IP at all when it is empty; IPs listed
\* after the first are never put into the request.
C11_PoolRequestOfFirstListedIP ==
    [][CreatePoolTaken
          => /\ calls'[2].op = "CreateIPPool" /\ calls'[1].len > 0
             /\ FixedPoolSettings(calls'[2].args)
             /\ calls'[2].args.ips =
                  (IF Deref(calls'[1].first).PublicIP # ""
                   THEN <<Deref(calls'[1].first).PublicIP>> ELSE <<>>)]_vars

\* C11 witness: the step's own listing returned the one IP 1.2.3.4 and the
\* create-pool request that followed named exactly that IP.
C11_Witness ==
    /\ out.step = "CreateIPPool"
    /\ Len(calls) = 2
    /\ calls[1].len = 1
    /\ calls[1].first = Ptr([PublicIP |-> "1.2.3.4"])
    /\ calls[2].args.ips = <<"1.2.3.4">>
    /\ calls[2].kind = "ok"

\* Step a was called, and returned, before step b was called.
CalledBefore(a, b) ==
    \A j \in 1..Len(ran) :
        ran[j] = b => \E i \in 1..(j - 1) : ran[i] = a

\* The steps called so far are distinct.
CalledOnce == \A i, j \in 1..Len(ran) : ran[i] = ran[j] => i = j

SendSteps == {"SendTransactionalEmail", "SendMarketingEmail"}

\* The order in which the step catalog lists the steps.
Catalog ==
    <<"ListSubAccounts", "CreateSubAccount", "CreateWebhook", "ListWebhooks",
      "AddDomain", "ListDomains", "ListIPs", "CreateIPPool", "ListIPPools",
      "SendTransactionalEmail", "SendMarketingEmail", "GetSubAccountStats",
      "GetAggregateStats", "GetAccountStats", "GetMessageDetails">>

CatalogRank(step) == CHOOSE i \in 1..Len(Catalog) : Catalog[i] = step

SubAccountScoped == {"SubaccountDomainPost", "GetAllDomains", "SendEmail"}

\* Every request of the step just taken carries the credential of its scope.
CredentialByScope ==
    \A i \in 1..Len(calls') :
        IF calls'[i].op \in SubAccountScoped
        THEN calls'[i].auth = "subAccountAuth" /\ calls'[i].key = e.subAccountAPIKey
        ELSE calls'[i].auth = "accountAuth" /\ calls'[i].key = e.accountAPIKey

UnsetRunState == RunState(ZeroESPExample)

\* A field that has a value keeps that value in this transition.
SetFieldsKept ==
    \A f \in DOMAIN UnsetRunState :
        RunState(e)[f] # UnsetRunState[f] => RunState(e')[f] = RunState(e)[f]

\* C14: during a run of the workflow every RunState field starts unset and
\* is written at most once: once a field has a value, no later step resets
\* it to unset or replaces it with a different value.
C14_FieldsWrittenAtMostOnce ==
    /\ [](ran = <<>> => RunState(e) = UnsetRunState)
    /\ [][SetFieldsKept]_vars

\* C14 witness: a completed run in which every field got a value.
C14_Witness ==
    /\ pc = "done"
    /\ \A f \in DOMAIN UnsetRunState : RunState(e)[f] # UnsetRunState[f]

\* A call of ListSubAccounts just returned (or died) after a successful listing.
ListingSucceeded ==
    /\ ncalls' # ncalls
    /\ out'.step = "ListSubAccounts"
    /\ calls'[1].kind = "ok"

\* C15: when listing sub-accounts succeeds with a non-empty list and
\* sub_account_id is unset, sub_account_id becomes the id of the first entry
\* in returned order, never that of a later entry (and sub_account_key that
\* entry's key, if it has one); when sub_account_id is already set, listing
\* leaves sub_account_id and sub_account_key unchanged.
C15_FirstListedEntryAdopted ==
    [][ListingSucceeded
          => IF e.createdSubAccountID = Nil
             THEN calls'[1].len > 0
                    => LET first == Deref(calls'[1].first)
                       IN  /\ e'.createdSubAccountID = first.Id
                           /\ e'.createdSubAccountKey =
                                (IF first.ApiKey # Nil THEN Deref(first.ApiKey)
                                 ELSE e.createdSubAccountKey)
             ELSE /\ e'.createdSubAccountID = e.createdSubAccountID
                  /\ e'.createdSubAccountKey = e.createdSubAccountKey]_vars

\* C15 witness: a listing of two entries, the first with id 2, returned while
\* no sub-account was selected, and id 2 with its key was adopted.
C15_Witness ==
    /\ out.step = "ListSubAccounts"
    /\ ncalls = 1
    /\ calls[1].len = 2
    /\ calls[1].first = Ptr([Id |-> Ptr(2), ApiKey |-> Ptr("k2")])
    /\ e.createdSubAccountID = Ptr(2)
    /\ e.createdSubAccountKey = "k2"
    /\ pc = "main"

\* C15 second witness state: a listing returned while a sub-account was
\* already selected.
C15_WitnessAlreadySet ==
    /\ out.step = "ListSubAccounts"
    /\ ncalls = 2
    /\ calls[1].len = 1
    /\ calls[1].first = Ptr([Id |-> Ptr(1), ApiKey |-> Ptr("k1")])
    /\ e.createdSubAccountID = Ptr(2)

\* The send step just taken names the stored pool, if there is one.
SendNamesStoredPool ==
    (pc \in SendSteps /\ pc' # pc)
        => /\ Len(calls') = 1 /\ calls'[1].op = "SendEmail"
           /\ (calls'[1].args.ippool # Nil) = (e.createdIPPoolName # "")
           /\ calls'[1].args.ippool # Nil
                => Deref(calls'[1].args.ippool) = e.createdIPPoolName

\* The marketing send just taken carries the pool setting of the
\* transactional send, the step before it.
SamePoolInBothSends ==
    (pc = "SendMarketingEmail" /\ pc' # pc)
        => calls'[1].args.ippool = calls[1].args.ippool

\* C16: each send request (transactional and marketing) names an IP pool if
\* and only if ip_pool_name is set at the time of the send, and the pool it
\* names is exactly ip_pool_name; in one run the marketing send therefore
\* carries the same pool setting as the transactional send before it.
C16_SendsNameTheStoredPool ==
    /\ [][SendNamesStoredPool]_vars
    /\ [][SamePoolInBothSends]_vars

\* C16 witness: the marketing send of a run that created a pool named that
\* pool in its request.
C16_Witness ==
    /\ out.step = "SendMarketingEmail"
    /\ e.createdIPPoolName = "Marketing Pool"
    /\ calls[1].args.ippool = Ptr("Marketing Pool")

\* The requests one invocation of a step made: at most one, except for
\* CreateIPPool, which lists the IPs and then makes at most one create-pool
\* request; a request that failed is the last one the invocation made.
RequestsOfOneInvocation ==
    ncalls' # ncalls
        => /\ IF out'.step = "CreateIPPool"
              THEN /\ Len(calls') \in 1..2
                   /\ calls'[1].op = "GetAllIps"
                   /\ Len(calls') = 2 => calls'[2].op = "CreateIPPool"
              ELSE Len(calls') <= 1
           /\ \A i \in 1..Len(calls') : calls'[i].kind # "ok" => i = Len(calls')

\* C17: no request is ever retried: each step other than create-IP-pool
\* issues at most one API request per invocation, create-IP-pool issues one
\* list-IPs request followed by at most one create-pool request, and after a
\* request fails the step issues no further request.
C17_NoRetries ==
    [][RequestsOfOneInvocation]_vars

\* C17 witness: CreateIPPool listed the IPs, made its create-pool request,
\* got an HTTP error and returned after those two requests.
C17_Witness ==
    /\ out.step = "CreateIPPool"
    /\ out.outcome = "Failure"
    /\ Len(calls) = 2
    /\ calls[2].op = "CreateIPPool"
    /\ calls[2].kind = "http"
    /\ pc = "main"

\* The outcomes a step can report.
Outcomes == {"Success", "Failure", "Skipped"}

\* C18: every invoked step reports exactly one outcome (success, failure or
\* skipped) for every possible API result, a send call that returns no error
\* but an empty response list included.
C18_EveryStepReportsAnOutcome ==
    [][StepTaken => out'.step = pc /\ out'.outcome \in Outcomes]_vars

\* C19: a successful API response in which an optional field is absent is a
\* normal outcome: the step completes, leaves the corresponding RunState
\* field unset, and the run continues to the next step.
C19_AbsentFieldIsNormal ==
    [][(StepTaken /\ calls' # <<>> /\ calls'[Len(calls')].kind = "ok")
          => pc' = After(pc)]_vars

\* The stored sub-account key belongs to the stored sub-account id.
KeyOfStoredId(x) ==
    x.createdSubAccountKey # ""
        => /\ x.createdSubAccountID # Nil
           /\ x.createdSubAccountKey = ApiKeyOf(Deref(x.createdSubAccountID))

\* C20: after any sequence of ListSubAccounts and CreateSubAccount calls with
\* any responses, the stored sub-account id and the stored sub-account key
\* come from the same sub-account record: the key is never set while the id
\* is unset, and the key is never that of a different sub-account than the id.
C20_IdAndKeyOfSameRecord ==
    KeyOfStoredId(e)

====
